---- MODULE Spec2Model ----
(***************************************************************************)
(* Model of the appointment monitor: the due-check scheduler               *)
(* (services/scheduler.py), the probe persistence path                     *)
(* (services/check_service.py), the subscription store                     *)
(* (services/subscription_service.py, core/models.py), the outcome of one  *)
(* probe (appointment_checker.py) and the notification hand-off            *)
(* (services/notification_service.py).                                     *)
(*                                                                         *)
(* Time is an integer clock.  One hour is HourUnits clock units and the    *)
(* inter-probe sleep of the scheduler is INTER_PROBE_DELAY clock units.    *)
(* The scheduler and the bot are two processes on one store: every action  *)
(* below is one stretch of code that runs without suspension (from one     *)
(* await to the next) and the actions of the two processes interleave.     *)
(* ORM reads of loaded rows are modelled as plain reads.                   *)
(***************************************************************************)
EXTENDS Integers, Sequences, FiniteSets, TLC

\* ---------------------------------------------------------------- bounds
NumSubs == 2
MaxTime == 4
DueMaxTime == 6
HourUnits == 3
MaxInterval == 2
MaxChecks == 2
NumSlots == 1
MaxSends == 2
MaxHtmlLen == 2
MaxHeaders == 2
MaxButtons == 1
MaxCalls == 3

\* ------------------------------------------------------- program constants
\* scheduler.py:107, await asyncio.sleep(2)
INTER_PROBE_DELAY == 2
\* handlers.py:324 and models.py:125, the interval of a new subscription
DEFAULT_INTERVAL_HOURS == 1
\* notification_service.py:63, appointments[:15]
MESSAGE_LIMIT == 15

\* ------------------------------------------------------------ value sets
Subs == 1..NumSubs
\* Python None, SQL NULL
None == 0 - 1
Origins == {"sched", "manual"}
\* a slot is a (date, time) pair; dates and times are small integers
SlotPairs == {<<1, t>> : t \in 1..NumSlots}
AppointmentLists == {<<a>> : a \in SlotPairs}
\* the users and the settings a subscription is created with
UserIds == {1}
Settings ==
    {[interval_hours |-> 1, quantity |-> 1, notify_telegram |-> TRUE],
     [interval_hours |-> MaxInterval, quantity |-> 2, notify_telegram |-> FALSE]}

NoResult == [status |-> "none", available |-> FALSE, appointments |-> <<>>,
             error_message |-> "", checked_at |-> None]
NoProbe == [pc |-> "none", sub |-> 0, started |-> None, result |-> NoResult,
            total_checks |-> 0]
\* no row with this id in the subscriptions table
NoRow == [user_id |-> 0]
\* scheduler.py:35-36: the SchedulerService as constructed; `jobs` are the ids
\* in the job store of self.scheduler, `state` is that scheduler's own state
Constructed == [running |-> FALSE, state |-> "stopped", jobs |-> <<>>]
\* no function applied yet
NoArg == <<>>
NoRet == [fn |-> "none"]
\* check_appointments not called yet: no browser, local `page` unbound
NoTried == [tried |-> <<>>, hit |-> 0]
NoCall == [pc |-> "none", driver |-> "none", browser |-> "none", page |-> FALSE,
           trace |-> <<>>, aborted |-> "none", consent |-> NoTried,
           popup |-> NoTried, spin |-> "none", exc |-> "none", msg |-> "",
           detected |-> NoResult, shot |-> "none", shotOpen |-> FALSE,
           result |-> NoResult, raised |-> FALSE]

VARIABLES
    now,              \* datetime.now()
    active,           \* Subscription.active
    interval_hours,   \* Subscription.interval_hours
    last_checked_at,  \* Subscription.last_checked_at (None = NULL)
    checks,           \* table checks with its appointments, row id = index
    probes,           \* run_subscription_check calls in flight, per caller
    schedPc,          \* position of _check_all_due_subscriptions
    dueList,          \* due_subscriptions of the latest tick
    idx,              \* index of the for loop in dueList
    lastProbeEnd,     \* when the latest call made by the tick returned
    attempts,         \* run_subscription_check calls of the latest tick, per sub
    lastSchedStart,   \* start of the latest scheduled probe, per sub
    delivered,        \* messages sent by bot.send_message
    arg,              \* argument of the parsing or detection function applied
    ret,              \* what that function returned
    ca,               \* one call of AppointmentChecker.check_appointments
    consecutive_errors, \* Subscription.consecutive_errors, per subscription
    total_checks,     \* Service.total_checks of the service the subscriptions are for
    subscriptions,    \* the subscriptions table: id -> user_id, service_id, ...
    scheduler         \* the SchedulerService object: running flag and its jobs

vars == <<now, active, interval_hours, last_checked_at, checks, probes, schedPc,
          dueList, idx, lastProbeEnd, attempts, lastSchedStart, delivered,
          arg, ret, ca, consecutive_errors, total_checks, subscriptions, scheduler>>

\* the state of the checker functions taken on their own
checkerVars == <<arg, ret, ca>>
\* the state of the scheduler, the store and the probes
serviceVars == <<now, active, interval_hours, last_checked_at, checks, probes, schedPc,
                 dueList, idx, lastProbeEnd, attempts, lastSchedStart, delivered,
                 consecutive_errors, total_checks, subscriptions, scheduler>>
\* what the probe path never writes
restVars == <<consecutive_errors, subscriptions, scheduler>>

\* ------------------------------------------------------------- helpers
Range(seq) == {seq[i] : i \in 1..Len(seq)}

\* timedelta(hours=h) in clock units
timedelta_hours(h) == h * HourUnits

\* subscription_service.py:256-264, the test of the loop body
IsDue_Strict(t, last, hours) ==
    IF last = None THEN TRUE ELSE (t - last) > timedelta_hours(hours)
IsDue(t, last, hours) ==
    IF last = None THEN TRUE ELSE (t - last) >= timedelta_hours(hours)

\* subscription_service.py:244-266: query the active rows (in id order) and
\* append the due ones
RECURSIVE DueLoop(_, _)
DueLoop(i, acc) ==
    IF i > NumSubs THEN acc
    ELSE IF active[i] /\ IsDue(now, last_checked_at[i], interval_hours[i])
         THEN DueLoop(i + 1, Append(acc, i))
         ELSE DueLoop(i + 1, acc)
get_subscriptions_due_for_check == DueLoop(1, <<>>)

Init ==
    /\ now = 0
    /\ active = [s \in Subs |-> TRUE]
    /\ interval_hours = [s \in Subs |-> DEFAULT_INTERVAL_HOURS]
    /\ last_checked_at = [s \in Subs |-> None]
    /\ checks = <<>>
    /\ probes = [o \in Origins |-> NoProbe]
    /\ schedPc = "idle"
    /\ dueList = <<>>
    /\ idx = 0
    /\ lastProbeEnd = None
    /\ attempts = [s \in Subs |-> 0]
    /\ lastSchedStart = [s \in Subs |-> None]
    /\ delivered = <<>>
    /\ consecutive_errors = [s \in Subs |-> 0]
    /\ total_checks = 0
    /\ subscriptions = [s \in Subs |-> [user_id |-> s, service_id |-> 1,
                                         quantity |-> 1, notify_telegram |-> TRUE]]
    /\ scheduler = Constructed
    /\ arg = NoArg
    /\ ret = NoRet
    /\ ca = NoCall

\* the wall clock advances
Advance ==
    /\ now < MaxTime
    /\ now' = now + 1
    /\ UNCHANGED <<active, interval_hours, last_checked_at, checks, probes, schedPc,
                   dueList, idx, lastProbeEnd, attempts, lastSchedStart, delivered>>
    /\ UNCHANGED checkerVars
    /\ UNCHANGED restVars
    /\ UNCHANGED total_checks

\* ------------------------------------------------ run_subscription_check
\* check_service.py:47-58: load the subscription, active rows only
LoadSubscription_AnyRow(s) == TRUE
LoadSubscription(s) == active[s]

\* what the caller of run_subscription_check does when the call returns:
\* the scheduler loop logs and goes on to its asyncio.sleep whatever the call
\* returned (scheduler.py:89-107); a manual caller is finished
\* (scheduler.py:126-127, handlers.py:356-379)
CallerResumes_NeverResumes(o, faulted) ==
    IF o = "sched"
    THEN /\ schedPc' = schedPc
         /\ lastProbeEnd' = now
    ELSE UNCHANGED <<schedPc, lastProbeEnd>>
CallerResumes_AbortOnFault(o, faulted) ==
    IF o = "sched"
    THEN /\ schedPc' = IF faulted THEN "idle" ELSE "sleeping"
         /\ lastProbeEnd' = now
    ELSE UNCHANGED <<schedPc, lastProbeEnd>>
CallerResumes(o, faulted) ==
    IF o = "sched"
    THEN /\ schedPc' = "sleeping"
         /\ lastProbeEnd' = now
    ELSE UNCHANGED <<schedPc, lastProbeEnd>>

\* room in the checks table for every call in flight and one more
Room ==
    Len(checks) + Cardinality({o \in Origins : probes[o].pc # "none"}) < MaxChecks

\* check_service.py:45-78: the call up to its first suspension inside
\* check_appointments; an inactive or missing subscription returns None at once
run_subscription_check_start(o, s) ==
    IF LoadSubscription(s)
    THEN /\ probes' = [probes EXCEPT ![o] =
                [pc |-> "checking", sub |-> s, started |-> now, result |-> NoResult,
                 total_checks |-> total_checks]]
         /\ IF o = "sched" THEN schedPc' = "awaiting" /\ UNCHANGED lastProbeEnd
                           ELSE UNCHANGED <<schedPc, lastProbeEnd>>
    ELSE /\ UNCHANGED probes
         /\ CallerResumes(o, FALSE)

\* appointment_checker.py:325-355 and 148-169: the results check_appointments
\* returns; CheckResult.__post_init__ (51-53) stamps checked_at when the result
\* is built
CheckResults(t) ==
    {[status |-> "no_appointments", available |-> FALSE, appointments |-> <<>>,
      error_message |-> "", checked_at |-> t]}
    \cup {[status |-> "appointments_found", available |-> TRUE, appointments |-> l,
           error_message |-> "", checked_at |-> t] : l \in AppointmentLists}
    \cup {[status |-> "unknown", available |-> FALSE, appointments |-> <<>>,
           error_message |-> "result", checked_at |-> t]}
    \cup {[status |-> "error", available |-> FALSE, appointments |-> <<>>,
           error_message |-> "result", checked_at |-> t]}

\* check_service.py:74: check_appointments returns a result; the screenshot and
\* browser.close() awaits lie between the stamp and the return
\* (appointment_checker.py:135-143, 171-174)
check_appointments_returns(o) ==
    /\ probes[o].pc = "checking"
    /\ \E r \in CheckResults(now) :
          probes' = [probes EXCEPT ![o].pc = "closing", ![o].result = r]
    /\ UNCHANGED <<now, active, interval_hours, last_checked_at, checks, schedPc,
                   dueList, idx, lastProbeEnd, attempts, lastSchedStart, delivered>>
    /\ UNCHANGED checkerVars
    /\ UNCHANGED restVars
    /\ UNCHANGED total_checks

\* check_service.py:81-104: the Check row with its Appointment rows
CheckRow(s, r) ==
    [subscription_id |-> s, status |-> r.status, available |-> r.available,
     appointment_count |-> Len(r.appointments),
     appointments |-> [i \in 1..Len(r.appointments) |->
                          [date |-> r.appointments[i][1], time |-> r.appointments[i][2],
                           notified |-> FALSE]],
     error_message |-> r.error_message, checked_at |-> r.checked_at]

\* check_service.py:134-141: the Check row of the exception path
ErrorRow(s) ==
    [subscription_id |-> s, status |-> "error", available |-> FALSE,
     appointment_count |-> 0, appointments |-> <<>>,
     error_message |-> "exception", checked_at |-> now]

\* check_service.py:107: what the success path writes to last_checked_at
NewLastChecked(old, checked_at) == checked_at

\* check_service.py:128-148: the exception path. The error Check is saved in a
\* session of its own; if that save fails too the failure is swallowed (145-146)
\* and the call returns None. last_checked_at is not written.
ExceptionPathOn(o, committed) ==
    /\ \E saved \in BOOLEAN :
          IF saved
          THEN checks' = Append(committed, ErrorRow(probes[o].sub))
          ELSE checks' = committed
    /\ probes' = [probes EXCEPT ![o] = NoProbe]
    /\ CallerResumes(o, TRUE)
ExceptionPath(o) ==
    /\ ExceptionPathOn(o, checks)
    /\ UNCHANGED <<last_checked_at, total_checks>>

\* database.py:103-105: session.rollback() after an exception inside the
\* session block: the rows of the store are the committed ones, what was
\* flushed or pending in the session is discarded
rollback_KeepsFlushed(committed, flushed) == flushed
rollback(committed, flushed) == committed

\* check_service.py:74 raising: check_appointments lets an exception escape
\* (appointment_checker.py:147 and 160 read `page`, unbound when the launch or
\* new_page failed), or the checker cannot be built (check_service.py:70-71)
check_appointments_raises(o) ==
    /\ probes[o].pc = "checking"
    /\ ExceptionPath(o)
    /\ UNCHANGED <<now, active, interval_hours, dueList, idx, attempts, lastSchedStart,
                   delivered>>
    /\ UNCHANGED checkerVars
    /\ UNCHANGED restVars

\* check_service.py:110: service.total_checks += 1 on the Service object loaded
\* with the subscription at 47-54, before the await of check_appointments: the
\* value incremented is the one loaded then, the one written is the result
StatisticsUpdate(stored, loaded) == loaded + 1

\* room in the checks table for a second row of a call in flight
RoomForErrorRow ==
    Len(checks) + Cardinality({q \in Origins : probes[q].pc # "none"}) + 1 <= MaxChecks

\* check_service.py:80-126: build the rows, write last_checked_at, commit; no
\* await lies between the first add and the commit, and all of it is done in
\* the one session opened at line 47. A failure of the flush (92) or of the
\* commit (114) rolls the session back (database.py:103-106) and enters the
\* exception path.
run_subscription_check_commit(o) ==
    /\ probes[o].pc = "closing"
    /\ LET s == probes[o].sub
           r == probes[o].result
           flushed == Append(checks, CheckRow(s, r))
       IN \/ /\ checks' = flushed
             /\ last_checked_at' = [last_checked_at EXCEPT
                                       ![s] = NewLastChecked(@, r.checked_at)]
             /\ total_checks' = StatisticsUpdate(total_checks, probes[o].total_checks)
             /\ probes' = [probes EXCEPT ![o] = NoProbe]
             /\ CallerResumes(o, r.status = "error")
          \/ /\ \E failed \in {"flush", "commit"} :
                   ExceptionPathOn(o, IF failed = "flush" THEN rollback(checks, checks)
                                      ELSE rollback(checks, flushed))
             /\ UNCHANGED <<last_checked_at, total_checks>>
          \* the commit is done and the re-fetch (116-119) or the logging
          \* (121-124) raises: the exception path runs on the committed rows
          \/ /\ RoomForErrorRow
             /\ last_checked_at' = [last_checked_at EXCEPT
                                       ![s] = NewLastChecked(@, r.checked_at)]
             /\ total_checks' = StatisticsUpdate(total_checks, probes[o].total_checks)
             /\ ExceptionPathOn(o, flushed)
    /\ UNCHANGED <<now, active, interval_hours, dueList, idx, attempts, lastSchedStart,
                   delivered>>
    /\ UNCHANGED checkerVars
    /\ UNCHANGED restVars

\* ------------------------------------------------------------- scheduler
\* scheduler.py:85-89: one iteration of the for loop up to the suspension of
\* run_subscription_check
StartIteration(due, i, counted) ==
    LET s == due[i]
    IN /\ idx' = i
       /\ attempts' = [counted EXCEPT ![s] = @ + 1]
       /\ lastSchedStart' = IF LoadSubscription(s)
                            THEN [lastSchedStart EXCEPT ![s] = now]
                            ELSE lastSchedStart
       /\ run_subscription_check_start("sched", s)

\* scheduler.py:70-89: the interval job fires; no due subscription ends the tick
\* at once, otherwise the loop starts with the first one
_check_all_due_subscriptions ==
    /\ schedPc = "idle"
    /\ Room
    /\ LET due == get_subscriptions_due_for_check
       IN /\ dueList' = due
          /\ IF due = <<>>
             THEN /\ idx' = 0
                  /\ attempts' = [s \in Subs |-> 0]
                  /\ UNCHANGED <<probes, schedPc, lastProbeEnd, lastSchedStart>>
             ELSE StartIteration(due, 1, [s \in Subs |-> 0])
    /\ UNCHANGED <<now, active, interval_hours, last_checked_at, checks, delivered>>
    /\ UNCHANGED checkerVars
    /\ UNCHANGED restVars
    /\ UNCHANGED total_checks

\* scheduler.py:107: when the await asyncio.sleep(2) begun at t is over
SleepEnd_NoSleep(t) == t
SleepEnd(t) == t + INTER_PROBE_DELAY

\* scheduler.py:107, 85, 109: the sleep is over; next iteration or end of tick
SleepReturns ==
    /\ schedPc = "sleeping"
    /\ now >= SleepEnd(lastProbeEnd)
    /\ IF idx < Len(dueList)
       THEN /\ Room
            /\ StartIteration(dueList, idx + 1, attempts)
            /\ UNCHANGED dueList
       ELSE /\ schedPc' = "idle"
            /\ UNCHANGED <<dueList, idx, attempts, lastProbeEnd, lastSchedStart, probes>>
    /\ UNCHANGED <<now, active, interval_hours, last_checked_at, checks, delivered>>
    /\ UNCHANGED checkerVars
    /\ UNCHANGED restVars
    /\ UNCHANGED total_checks

\* --------------------------------------------------------- manual probes
\* scheduler.py:114-131
check_subscription_now(s) ==
    /\ probes["manual"].pc = "none"
    /\ Room
    /\ run_subscription_check_start("manual", s)
    /\ UNCHANGED <<now, active, interval_hours, last_checked_at, checks, dueList, idx,
                   attempts, lastSchedStart, delivered>>
    /\ UNCHANGED checkerVars
    /\ UNCHANGED restVars
    /\ UNCHANGED total_checks

\* handlers.py:350-383
_handle_manual_check(s) ==
    /\ probes["manual"].pc = "none"
    /\ Room
    /\ run_subscription_check_start("manual", s)
    /\ UNCHANGED <<now, active, interval_hours, last_checked_at, checks, dueList, idx,
                   attempts, lastSchedStart, delivered>>
    /\ UNCHANGED checkerVars
    /\ UNCHANGED restVars
    /\ UNCHANGED total_checks

\* ---------------------------------------------------------- subscriptions
\* subscription_service.py:189-216
delete_subscription(s) ==
    /\ active' = [active EXCEPT ![s] = FALSE]
    /\ UNCHANGED <<now, interval_hours, last_checked_at, checks, probes, schedPc,
                   dueList, idx, lastProbeEnd, attempts, lastSchedStart, delivered>>
    /\ UNCHANGED checkerVars
    /\ UNCHANGED restVars
    /\ UNCHANGED total_checks

\* ---------------------------------------------------------- notification
\* notification_service.py:62-63: the slots listed in the message
MessageSlots(appointments) ==
    [i \in 1..(IF Len(appointments) < MESSAGE_LIMIT THEN Len(appointments)
                                                     ELSE MESSAGE_LIMIT) |->
        <<appointments[i].date, appointments[i].time>>]

\* notification_service.py:74-119: the value returned when bot.send_message
\* delivered the message or raised TelegramError (sent) and the Notification
\* row was saved or that save raised (recorded): an exception of the save is
\* no TelegramError and ends in `except Exception: return False`
NotificationReturn(sent, recorded) == sent /\ recorded

\* notification_service.py:34-119, called with a persisted check that found
\* appointments and the appointments of that check
send_appointment_notification(c) ==
    /\ c \in 1..Len(checks)
    /\ checks[c].available
    /\ Len(delivered) < MaxSends
    /\ \E sent, recorded \in BOOLEAN :
          /\ IF sent
             THEN delivered' = Append(delivered,
                      [check_id |-> c, sub |-> checks[c].subscription_id,
                       slots |-> MessageSlots(checks[c].appointments)])
             ELSE UNCHANGED delivered
          /\ ret' = [fn |-> "send_appointment_notification",
                     value |-> NotificationReturn(sent, recorded),
                     sent |-> sent, recorded |-> recorded]
    /\ UNCHANGED <<now, active, interval_hours, last_checked_at, checks, probes, schedPc,
                   dueList, idx, lastProbeEnd, attempts, lastSchedStart>>
    /\ UNCHANGED <<arg, ca>>
    /\ UNCHANGED restVars
    /\ UNCHANGED total_checks

\* ------------------------------------------------------ text and parsing
\* a str is a sequence of one-character strings; None where a str is expected
\* is NoneStr: the functions below never return "" and their callers only test
\* truthiness (appointment_checker.py:391, 400, 426, 434)
NoneStr == <<>>
Digits == {"0", "1", "2", "3", "4", "5", "6", "7", "8", "9"}
\* characters that are not \w in the texts used here
NonWord == {" ", ",", ".", ":", "-"}
IsDigit(c) == c \in Digits
IsWord(c) == c \notin NonWord

\* regex \b before position i of text (i = Len(text) + 1 is the end)
Boundary(text, i) ==
    (i > 1 /\ i - 1 <= Len(text) /\ IsWord(text[i - 1]))
        # (i >= 1 /\ i <= Len(text) /\ IsWord(text[i]))

\* \d{n} at positions i .. i+n-1
DigitsAt(text, i, n) ==
    /\ i + n - 1 <= Len(text)
    /\ \A j \in i..(i + n - 1) : IsDigit(text[j])

CharAt(text, i, c) == i <= Len(text) /\ text[i] = c

\* str.zfill(width)
zfill_NoPad(str, width) == str
RECURSIVE zfill(_, _)
zfill(str, width) ==
    IF Len(str) >= width THEN str ELSE zfill(<<"0">> \o str, width)

\* str.strip() for the blank
RECURSIVE lstrip(_)
lstrip(str) ==
    IF str # <<>> /\ Head(str) = " " THEN lstrip(Tail(str)) ELSE str
RECURSIVE rstrip(_)
rstrip(str) ==
    IF str # <<>> /\ str[Len(str)] = " "
    THEN rstrip(SubSeq(str, 1, Len(str) - 1)) ELSE str
strip(str) == rstrip(lstrip(str))

\* appointment_checker.py:507: \b(\d{1,2})\.(\d{1,2})\.(\d{4})\b matched at
\* position i with a day of d and a month of m digits
DateMatchAt(text, i, d, m) ==
    /\ Boundary(text, i)
    /\ DigitsAt(text, i, d)
    /\ CharAt(text, i + d, ".")
    /\ DigitsAt(text, i + d + 1, m)
    /\ CharAt(text, i + d + 1 + m, ".")
    /\ DigitsAt(text, i + d + m + 2, 4)
    /\ Boundary(text, i + d + m + 6)

\* the matches of re.search(date_pattern, text), as <<i, d, m>>
DateMatches(text) ==
    {mt \in (1..Len(text)) \X (1..2) \X (1..2) : DateMatchAt(text, mt[1], mt[2], mt[3])}

\* appointment_checker.py:488-522
_parse_german_date(text) ==
    IF text = NoneStr THEN NoneStr
    ELSE LET ms == DateMatches(text)
         IN IF ms = {} THEN NoneStr
            ELSE LET mt == CHOOSE x \in ms : \A y \in ms : x[1] <= y[1]
                     i == mt[1]
                     d == mt[2]
                     m == mt[3]
                     day == zfill(SubSeq(text, i, i + d - 1), 2)
                     month == zfill(SubSeq(text, i + d + 1, i + d + m), 2)
                     year == SubSeq(text, i + d + m + 2, i + d + m + 5)
                 IN year \o <<"-">> \o month \o <<"-">> \o day

\* appointment_checker.py:481: \b(\d{1,2}:\d{2})\b matched at position i with
\* an hour of h digits
TimeMatchAt(text, i, h) ==
    /\ Boundary(text, i)
    /\ DigitsAt(text, i, h)
    /\ CharAt(text, i + h, ":")
    /\ DigitsAt(text, i + h + 1, 2)
    /\ Boundary(text, i + h + 3)

TimeMatches(text) ==
    {mt \in (1..Len(text)) \X (1..2) : TimeMatchAt(text, mt[1], mt[2])}

\* appointment_checker.py:453-486, the time component of the returned pair:
\* group(1) of the first match, as it stands in the text
_parse_datetime_from_text(text) ==
    IF text = NoneStr THEN NoneStr
    ELSE LET ms == TimeMatches(text)
         IN IF ms = {} THEN NoneStr
            ELSE LET mt == CHOOSE x \in ms : \A y \in ms : x[1] <= y[1]
                 IN SubSeq(text, mt[1], mt[1] + mt[2] + 2)

\* ------------------------------------------------ detection and extraction
\* str.lower() on the letters used in page contents
LowerChar(c) == IF c = "K" THEN "k" ELSE IF c = "T" THEN "t" ELSE IF c = "F" THEN "f" ELSE c
lower_Identity(str) == str
lower(str) == [i \in 1..Len(str) |-> LowerChar(str[i])]

\* Python's `sub in str`
Contains(sub, str) ==
    \E i \in 0..(Len(str) - Len(sub)) : \A j \in 1..Len(sub) : str[i + j] = sub[j]

\* appointment_checker.py:66-74: the phrases, two of them over the page alphabet
NO_APPOINTMENT_PATTERNS == << <<"K", "t">>, <<"k", "F">> >>

\* appointment_checker.py:322-323: some pattern is in the page content, both
\* lowered
MatchesNoAppointmentPattern(html) ==
    \E k \in 1..Len(NO_APPOINTMENT_PATTERNS) :
        Contains(lower(NO_APPOINTMENT_PATTERNS[k]), lower(html))

\* appointment_checker.py:422-440: the controls of one panel, in page order
RECURSIVE ButtonLoop(_, _, _, _)
ButtonLoop(parsed_date, panel, j, acc) ==
    IF j > Len(panel) THEN acc
    ELSE IF panel[j] = NoneStr THEN ButtonLoop(parsed_date, panel, j + 1, acc)
    ELSE LET parsed_time == _parse_datetime_from_text(strip(panel[j]))
         IN IF parsed_time # NoneStr
            THEN ButtonLoop(parsed_date, panel, j + 1,
                            Append(acc, <<parsed_date, parsed_time>>))
            ELSE ButtonLoop(parsed_date, panel, j + 1, acc)

\* appointment_checker.py:386-451: the date sections, in page order; an
\* exception while section page.raiseAt is being read returns the slots
\* collected so far
RECURSIVE HeaderLoop(_, _, _)
HeaderLoop(page, i, acc) ==
    IF i > Len(page.headers) THEN acc
    ELSE IF page.raiseAt = i THEN acc
    ELSE IF page.headers[i].text = NoneStr THEN HeaderLoop(page, i + 1, acc)
    ELSE LET parsed_date == _parse_german_date(strip(page.headers[i].text))
         IN IF parsed_date = NoneStr
            THEN HeaderLoop(page, i + 1, acc)
            ELSE HeaderLoop(page, i + 1,
                            ButtonLoop(parsed_date, page.headers[i].panel, 1, acc))

\* appointment_checker.py:357-451
_extract_appointment_slots(page) ==
    IF Len(page.headers) = 0 THEN <<>> ELSE HeaderLoop(page, 1, <<>>)

\* appointment_checker.py:337-355: the result for the extracted slots
ResultOfSlots_EmptyIsNoAppointments(appointments, t) ==
    IF appointments # <<>>
    THEN [status |-> "appointments_found", available |-> TRUE,
          appointments |-> appointments, error_message |-> "", checked_at |-> t]
    ELSE [status |-> "no_appointments", available |-> FALSE, appointments |-> <<>>,
          error_message |-> "", checked_at |-> t]
ResultOfSlots_AlwaysFound(appointments, t) ==
    [status |-> "appointments_found", available |-> TRUE,
     appointments |-> appointments, error_message |-> "", checked_at |-> t]
ResultOfSlots(appointments, t) ==
    IF appointments # <<>>
    THEN [status |-> "appointments_found", available |-> TRUE,
          appointments |-> appointments, error_message |-> "", checked_at |-> t]
    ELSE [status |-> "unknown", available |-> FALSE, appointments |-> <<>>,
          error_message |-> "result", checked_at |-> t]

\* appointment_checker.py:301-355, on the content and structure of the page
_detect_and_extract_appointments(page, t) ==
    IF MatchesNoAppointmentPattern(page.html)
    THEN [status |-> "no_appointments", available |-> FALSE, appointments |-> <<>>,
          error_message |-> "", checked_at |-> t]
    ELSE ResultOfSlots(_extract_appointment_slots(page), t)

\* ------------------------------------------------------- specifications
\* the scheduler process and the bot's manual checks on one store
Next ==
    \/ Advance
    \/ _check_all_due_subscriptions
    \/ SleepReturns
    \/ \E o \in Origins : check_appointments_returns(o)
    \/ \E o \in Origins : check_appointments_raises(o)
    \/ \E o \in Origins : run_subscription_check_commit(o)
    \/ \E s \in Subs : check_subscription_now(s)
    \/ \E s \in Subs : _handle_manual_check(s)
    \/ \E s \in Subs : delete_subscription(s)

Spec == Init /\ [][Next]_vars

\* the scheduler process alone, while subscriptions are being cancelled
NextTick ==
    \/ Advance
    \/ _check_all_due_subscriptions
    \/ SleepReturns
    \/ check_appointments_returns("sched")
    \/ check_appointments_raises("sched")
    \/ run_subscription_check_commit("sched")
    \/ \E s \in Subs : delete_subscription(s)

SpecTick == Init /\ [][NextTick]_vars

\* the same with the interval job and every pending await going on
SpecTickFair == Init /\ [][NextTick]_vars /\ WF_vars(NextTick)

\* the scheduler process on a store no other process writes, with the interval
\* job and every pending await going on
NextRun ==
    \/ Advance
    \/ _check_all_due_subscriptions
    \/ SleepReturns
    \/ check_appointments_returns("sched")
    \/ check_appointments_raises("sched")
    \/ run_subscription_check_commit("sched")

SpecRunFair == Init /\ [][NextRun]_vars /\ WF_vars(NextRun)

\* get_subscriptions_due_for_check applied to every store and clock value
InitDue ==
    /\ now \in 0..DueMaxTime
    /\ active \in [Subs -> BOOLEAN]
    /\ interval_hours \in [Subs -> 1..MaxInterval]
    /\ last_checked_at \in [Subs -> {None} \cup 0..DueMaxTime]
    /\ \A s \in Subs : last_checked_at[s] <= now
    /\ checks = <<>>
    /\ probes = [o \in Origins |-> NoProbe]
    /\ schedPc = "idle"
    /\ dueList = <<>>
    /\ idx = 0
    /\ lastProbeEnd = None
    /\ attempts = [s \in Subs |-> 0]
    /\ lastSchedStart = [s \in Subs |-> None]
    /\ delivered = <<>>
    /\ consecutive_errors = [s \in Subs |-> 0]
    /\ total_checks = 0
    /\ subscriptions = [s \in Subs |-> [user_id |-> s, service_id |-> 1,
                                         quantity |-> 1, notify_telegram |-> TRUE]]
    /\ scheduler = Constructed
    /\ arg = NoArg
    /\ ret = NoRet
    /\ ca = NoCall

\* scheduler.py:76: the tick's call of get_subscriptions_due_for_check
DueQuery ==
    /\ schedPc = "idle"
    /\ schedPc' = "queried"
    /\ dueList' = get_subscriptions_due_for_check
    /\ UNCHANGED <<now, active, interval_hours, last_checked_at, checks, probes, idx,
                   lastProbeEnd, attempts, lastSchedStart, delivered>>
    /\ UNCHANGED checkerVars
    /\ UNCHANGED restVars
    /\ UNCHANGED total_checks

NextDue == DueQuery

SpecDue == InitDue /\ [][NextDue]_vars

\* manual checks and the notification hand-off
NextNotify ==
    \/ \E s \in Subs : check_subscription_now(s)
    \/ \E s \in Subs : _handle_manual_check(s)
    \/ check_appointments_returns("manual")
    \/ check_appointments_raises("manual")
    \/ run_subscription_check_commit("manual")
    \/ \E c \in 1..MaxChecks : send_appointment_notification(c)

SpecNotify == Init /\ [][NextNotify]_vars

\* the bot process alone: manual checks asked for in the chat
NextBot ==
    \/ Advance
    \/ \E s \in Subs : _handle_manual_check(s)
    \/ check_appointments_returns("manual")
    \/ check_appointments_raises("manual")
    \/ run_subscription_check_commit("manual")
    \/ \E s \in Subs : delete_subscription(s)

SpecBot == Init /\ [][NextBot]_vars

\* ------------------------------------------------- the subscriptions table
\* the ids of the rows of the table
RowIds == {s \in Subs : subscriptions[s] # NoRow}
ServiceIds == {1, 2}

\* subscription_service.py:55-58: the rows with this user_id and service_id
FindPair_ActiveOnly(u, sv) ==
    {s \in RowIds : /\ subscriptions[s].user_id = u
                    /\ subscriptions[s].service_id = sv
                    /\ active[s]}
FindPair(u, sv) ==
    {s \in RowIds : subscriptions[s].user_id = u /\ subscriptions[s].service_id = sv}

\* models.py:149-150, UniqueConstraint('user_id', 'service_id'): may a row for
\* this pair be inserted into the table?
uix_user_service(u, sv) ==
    \A s \in RowIds : ~(subscriptions[s].user_id = u /\ subscriptions[s].service_id = sv)

\* subscription_service.py:62: if not existing.active
NeedsReactivation_Always(act) == TRUE
NeedsReactivation(act) == ~act

\* subscription_service.py:208: the row after delete_subscription; only its
\* active flag is written, the row stays
DeletedRow_Removed(row) == NoRow
DeletedRow(row) == row

\* one more call of the subscription service; calls are numbered
NextCall(fn, value) == [fn |-> fn, value |-> value, n |-> ret.n + 1]

\* subscription_service.py:31-101
create_subscription(u, sv, ih, q, nt) ==
    /\ ret.n < MaxCalls
    /\ arg' = [user_id |-> u, service_id |-> sv, interval_hours |-> ih,
               quantity |-> q, notify_telegram |-> nt]
    /\ LET existing == FindPair(u, sv)
           id == Cardinality(RowIds) + 1
       IN IF existing # {}
          THEN LET e == CHOOSE s \in existing : \A x \in existing : s <= x
               IN /\ IF NeedsReactivation(active[e])
                     THEN /\ active' = [active EXCEPT ![e] = TRUE]
                          /\ interval_hours' = [interval_hours EXCEPT ![e] = ih]
                          /\ subscriptions' = [subscriptions EXCEPT
                                                 ![e].quantity = q,
                                                 ![e].notify_telegram = nt]
                     ELSE UNCHANGED <<active, interval_hours, subscriptions>>
                  /\ ret' = NextCall("create_subscription", e)
          ELSE IF uix_user_service(u, sv)
               THEN /\ id \in Subs
                    /\ subscriptions' = [subscriptions EXCEPT ![id] =
                            [user_id |-> u, service_id |-> sv, quantity |-> q,
                             notify_telegram |-> nt]]
                    /\ active' = [active EXCEPT ![id] = TRUE]
                    /\ interval_hours' = [interval_hours EXCEPT ![id] = ih]
                    /\ ret' = NextCall("create_subscription", id)
               \* the INSERT is refused: except clause, return None (99-101)
               ELSE /\ UNCHANGED <<active, interval_hours, subscriptions>>
                    /\ ret' = NextCall("create_subscription", None)
    /\ UNCHANGED <<now, last_checked_at, checks, probes, schedPc, dueList, idx,
                   lastProbeEnd, attempts, lastSchedStart, delivered>>
    /\ UNCHANGED <<ca, consecutive_errors, scheduler, total_checks>>

\* subscription_service.py:189-216, with the value it returns
delete_subscription_returns(id) ==
    /\ ret.n < MaxCalls
    /\ arg' = [id |-> id]
    /\ IF id \in RowIds
       THEN /\ active' = [active EXCEPT ![id] = FALSE]
            /\ subscriptions' = [subscriptions EXCEPT ![id] = DeletedRow(@)]
            /\ ret' = NextCall("delete_subscription", TRUE)
       ELSE /\ UNCHANGED <<active, subscriptions>>
            /\ ret' = NextCall("delete_subscription", FALSE)
    /\ UNCHANGED <<now, interval_hours, last_checked_at, checks, probes, schedPc,
                   dueList, idx, lastProbeEnd, attempts, lastSchedStart, delivered>>
    /\ UNCHANGED <<ca, consecutive_errors, scheduler, total_checks>>

\* the bot process on an empty subscriptions table: subscribe, unsubscribe and
\* a manual check
InitSubs ==
    /\ now = 0
    /\ subscriptions = [s \in Subs |-> NoRow]
    /\ active = [s \in Subs |-> FALSE]
    /\ interval_hours = [s \in Subs |-> DEFAULT_INTERVAL_HOURS]
    /\ last_checked_at = [s \in Subs |-> None]
    /\ checks = <<>>
    /\ probes = [o \in Origins |-> NoProbe]
    /\ schedPc = "idle"
    /\ dueList = <<>>
    /\ idx = 0
    /\ lastProbeEnd = None
    /\ attempts = [s \in Subs |-> 0]
    /\ lastSchedStart = [s \in Subs |-> None]
    /\ delivered = <<>>
    /\ consecutive_errors = [s \in Subs |-> 0]
    /\ total_checks = 0
    /\ scheduler = Constructed
    /\ arg = NoArg
    /\ ret = [fn |-> "none", value |-> None, n |-> 0]
    /\ ca = NoCall

NextSubs ==
    \/ Advance
    \/ \E u \in UserIds, sv \in ServiceIds, st \in Settings :
          create_subscription(u, sv, st.interval_hours, st.quantity, st.notify_telegram)
    \/ \E id \in Subs : delete_subscription_returns(id)
    \* one manual check in a behaviour
    \/ \E s \in Subs : checks = <<>> /\ _handle_manual_check(s)
    \/ check_appointments_returns("manual")
    \/ run_subscription_check_commit("manual")

SpecSubs == InitSubs /\ [][NextSubs]_vars

\* ------------------------------------------------- start and stop
\* scheduler.py:40: if self.running
AlreadyRunning_Never(running) == FALSE
AlreadyRunning(running) == running

\* scheduler.py:48-54: add_job(..., id=id, replace_existing=True): a job with
\* this id in the store is replaced, not joined by a second one
add_job(jobs, id) == IF id \in Range(jobs) THEN jobs ELSE Append(jobs, id)

\* scheduler.py:38-58
start ==
    /\ ret.n < MaxCalls
    /\ IF AlreadyRunning(scheduler.running)
       THEN /\ ret' = NextCall("start", "already running")
            /\ UNCHANGED scheduler
       ELSE LET added == [scheduler EXCEPT !.jobs = add_job(@, "check_subscriptions")]
            IN IF scheduler.state = "running"
               \* self.scheduler.start() raises SchedulerAlreadyRunningError
               THEN /\ scheduler' = added
                    /\ ret' = NextCall("start", "raised")
               ELSE /\ scheduler' = [added EXCEPT !.state = "running", !.running = TRUE]
                    /\ ret' = NextCall("start", "started")
    /\ UNCHANGED <<now, active, interval_hours, last_checked_at, checks, probes,
                   schedPc, dueList, idx, lastProbeEnd, attempts, lastSchedStart,
                   delivered>>
    /\ UNCHANGED <<arg, ca, consecutive_errors, subscriptions, total_checks>>

\* scheduler.py:60-68; shutdown() of the asyncio executor cancels the run of
\* the job that is in flight: its session is rolled back and the tick is over
stop ==
    /\ ret.n < MaxCalls
    /\ IF ~scheduler.running
       THEN /\ ret' = NextCall("stop", "not running")
            /\ UNCHANGED <<scheduler, schedPc, probes>>
       ELSE /\ scheduler' = [scheduler EXCEPT !.state = "stopped", !.running = FALSE]
            /\ schedPc' = "idle"
            /\ probes' = [probes EXCEPT !["sched"] = NoProbe]
            /\ ret' = NextCall("stop", "stopped")
    /\ UNCHANGED <<now, active, interval_hours, last_checked_at, checks, dueList,
                   idx, lastProbeEnd, attempts, lastSchedStart, delivered>>
    /\ UNCHANGED <<arg, ca, consecutive_errors, subscriptions, total_checks>>

\* scheduler.py:48-54: the interval trigger fires the job of a started scheduler
job_fires ==
    /\ scheduler.state = "running"
    /\ "check_subscriptions" \in Range(scheduler.jobs)
    /\ _check_all_due_subscriptions

\* a SchedulerService on a store of active subscriptions, before any call
InitLifecycle ==
    /\ now = 0
    /\ active = [s \in Subs |-> TRUE]
    /\ interval_hours = [s \in Subs |-> DEFAULT_INTERVAL_HOURS]
    /\ last_checked_at = [s \in Subs |-> None]
    /\ checks = <<>>
    /\ probes = [o \in Origins |-> NoProbe]
    /\ schedPc = "idle"
    /\ dueList = <<>>
    /\ idx = 0
    /\ lastProbeEnd = None
    /\ attempts = [s \in Subs |-> 0]
    /\ lastSchedStart = [s \in Subs |-> None]
    /\ delivered = <<>>
    /\ consecutive_errors = [s \in Subs |-> 0]
    /\ total_checks = 0
    /\ subscriptions = [s \in Subs |-> [user_id |-> s, service_id |-> 1,
                                         quantity |-> 1, notify_telegram |-> TRUE]]
    /\ scheduler = Constructed
    /\ arg = NoArg
    /\ ret = [fn |-> "none", value |-> None, n |-> 0]
    /\ ca = NoCall

NextLifecycle ==
    \/ Advance
    \/ start
    \/ stop
    \/ job_fires
    \/ SleepReturns
    \/ check_appointments_returns("sched")
    \/ run_subscription_check_commit("sched")

SpecLifecycle == InitLifecycle /\ [][NextLifecycle]_vars

\* the parsing functions applied to header and control texts
SmallDigits == {"0", "1", "3", "5", "8", "9"}
ShortNumbers == {<<a>> : a \in SmallDigits} \cup {<<a, b>> : a, b \in SmallDigits}
TwoDigits == {<<a, b>> : a, b \in SmallDigits}
Years == {<<"2", "0", "2", "5">>, <<"2", "0", "2", "6">>}
WeekdayPrefixes == {<<>>, <<"D", "i", ",", " ">>, <<" ", "D", "i", ",", " ">>}
TimeSuffixes == {<<>>, <<" ", "U", "h", "r">>}
OtherTexts == {<<>>, <<"h", "e", "u", "t", "e">>, <<"f", "r", "e", "i">>,
               <<"1", "8", ".", "1", "1", ".", "2", "5">>,
               <<"1", "8", "-", "1", "1", "-", "2", "0", "2", "5">>,
               <<"1", "4", "3", "0">>, <<"1", "4", ".", "3", "0">>}

ParseArgs ==
    [kind : {"date"}, prefix : WeekdayPrefixes, day : ShortNumbers,
     month : ShortNumbers, year : Years]
    \cup [kind : {"time"}, hour : ShortNumbers, minute : TwoDigits,
          suffix : TimeSuffixes]
    \cup [kind : {"other"}, text : OtherTexts]

\* the text of a header or a control
Render(a) ==
    IF a.kind = "date"
    THEN a.prefix \o a.day \o <<".">> \o a.month \o <<".">> \o a.year
    ELSE IF a.kind = "time" THEN a.hour \o <<":">> \o a.minute \o a.suffix
    ELSE a.text

\* a date section and a control that parse
GoodHeader == <<"1", "8", ".", "1", "1", ".", "2", "0", "2", "5">>
GoodControl == <<"1", "4", ":", "3", "0">>

\* a page of one date section with one control
OneSectionPage(header, control) ==
    [html |-> <<>>, headers |-> <<[text |-> header, panel |-> <<control>>]>>,
     raiseAt |-> 0]

InitParse ==
    /\ arg \in ParseArgs
    /\ ret = NoRet
    /\ ca = NoCall
    /\ now = 0
    /\ active = [s \in Subs |-> TRUE]
    /\ interval_hours = [s \in Subs |-> DEFAULT_INTERVAL_HOURS]
    /\ last_checked_at = [s \in Subs |-> None]
    /\ checks = <<>>
    /\ probes = [o \in Origins |-> NoProbe]
    /\ schedPc = "idle"
    /\ dueList = <<>>
    /\ idx = 0
    /\ lastProbeEnd = None
    /\ attempts = [s \in Subs |-> 0]
    /\ lastSchedStart = [s \in Subs |-> None]
    /\ delivered = <<>>
    /\ consecutive_errors = [s \in Subs |-> 0]
    /\ total_checks = 0
    /\ subscriptions = [s \in Subs |-> [user_id |-> s, service_id |-> 1,
                                         quantity |-> 1, notify_telegram |-> TRUE]]
    /\ scheduler = Constructed

\* appointment_checker.py:390-402: the text is a section header
ParseHeader ==
    /\ ret = NoRet
    /\ ret' = [fn |-> "_parse_german_date",
               value |-> _parse_german_date(Render(arg)),
               slots |-> _extract_appointment_slots(
                             OneSectionPage(Render(arg), GoodControl))]
    /\ UNCHANGED <<arg, ca>>
    /\ UNCHANGED serviceVars

\* appointment_checker.py:424-440: the text is a control of a section
ParseControl ==
    /\ ret = NoRet
    /\ ret' = [fn |-> "_parse_datetime_from_text",
               value |-> _parse_datetime_from_text(Render(arg)),
               slots |-> _extract_appointment_slots(
                             OneSectionPage(GoodHeader, Render(arg)))]
    /\ UNCHANGED <<arg, ca>>
    /\ UNCHANGED serviceVars

NextParse == ParseHeader \/ ParseControl

SpecParse == InitParse /\ [][NextParse]_vars

\* the detection applied to terminal pages
SeqsUpTo(S, n) == UNION {[1..k -> S] : k \in 0..n}
\* letters of the page content: the phrases in other case, and other text
HtmlAlphabet == {"k", "T", "f"}
Htmls == SeqsUpTo(HtmlAlphabet, MaxHtmlLen)
HeaderTexts == {GoodHeader, <<"h", "e", "u", "t", "e">>}
ControlTexts == {GoodControl, <<"f", "r", "e", "i">>}
Sections == [text : HeaderTexts, panel : SeqsUpTo(ControlTexts, MaxButtons)]
Pages ==
    {pg \in [html : Htmls, headers : SeqsUpTo(Sections, MaxHeaders),
             raiseAt : 0..MaxHeaders] : pg.raiseAt <= Len(pg.headers)}

InitDetect ==
    /\ arg \in Pages
    /\ ret = NoRet
    /\ ca = NoCall
    /\ now = 0
    /\ active = [s \in Subs |-> TRUE]
    /\ interval_hours = [s \in Subs |-> DEFAULT_INTERVAL_HOURS]
    /\ last_checked_at = [s \in Subs |-> None]
    /\ checks = <<>>
    /\ probes = [o \in Origins |-> NoProbe]
    /\ schedPc = "idle"
    /\ dueList = <<>>
    /\ idx = 0
    /\ lastProbeEnd = None
    /\ attempts = [s \in Subs |-> 0]
    /\ lastSchedStart = [s \in Subs |-> None]
    /\ delivered = <<>>
    /\ consecutive_errors = [s \in Subs |-> 0]
    /\ total_checks = 0
    /\ subscriptions = [s \in Subs |-> [user_id |-> s, service_id |-> 1,
                                         quantity |-> 1, notify_telegram |-> TRUE]]
    /\ scheduler = Constructed

\* appointment_checker.py:135: the call on the terminal page
Detect ==
    /\ ret = NoRet
    /\ ret' = [fn |-> "_detect_and_extract_appointments",
               value |-> _detect_and_extract_appointments(arg, now)]
    /\ UNCHANGED <<arg, ca>>
    /\ UNCHANGED serviceVars

NextDetect == Detect

SpecDetect == InitDetect /\ [][NextDetect]_vars

\* ------------------------------------------------------ check_appointments
\* one call of check_appointments, one action per await or per booking stage
\* the exceptions an await of the browser driver raises
\* (appointment_checker.py:145, 158)
Exceptions == {"timeout", "other"}
\* pages the call can end on
CheckerPages ==
    {pg \in Pages : pg.raiseAt = 0 /\ Len(pg.headers) <= 1
                    /\ pg.html \in {<<>>, <<"k", "T">>}}

\* appointment_checker.py:187-240 and 132: the booking stages in the order of
\* the statements that run them
STAGES == <<"goto", "consent", "category", "service", "quantity", "weiter1",
            "popup", "weiter2", "wait">>
\* the stages made of plain awaits whose exception is re-raised
\* (187, 195-201, 205-211, 219-226, 234-240)
PlainStages == {"goto", "category", "service", "weiter1", "weiter2"}
NextStage(c) == STAGES[Len(c.trace) + 1]

\* str(e) of an exception raised while `site` is awaited: the driver's text of
\* the failed wait, which names what was waited for, or the text it uses at any
\* await once the page or the browser is gone
ExceptionTexts(site) == {site, "closed"}

\* appointment_checker.py:152: f"Timeout: {str(e)}"; 165: str(e)
ErrorMessage(kind, text) ==
    IF kind = "other" THEN text
    ELSE CASE text = "goto" -> "Timeout: goto"
           [] text = "category" -> "Timeout: category"
           [] text = "service" -> "Timeout: service"
           [] text = "quantity" -> "Timeout: quantity"
           [] text = "weiter1" -> "Timeout: weiter1"
           [] text = "weiter2" -> "Timeout: weiter2"
           [] text = "wait" -> "Timeout: wait"
           [] text = "launch" -> "Timeout: launch"
           [] text = "new_page" -> "Timeout: new_page"
           [] text = "content" -> "Timeout: content"
           [] OTHER -> "Timeout: closed"

\* appointment_checker.py:119: leaving the `async with async_playwright()`
\* block, by return or by exception, stops the driver the block started
LeaveWith(driver) == IF driver = "started" THEN "stopped" ELSE driver

\* an await inside the try raises: the with block is left, then control goes
\* to the except clauses
Raise(kind, text) ==
    ca' = [ca EXCEPT !.pc = "handler", !.exc = kind, !.msg = text,
                     !.driver = LeaveWith(@)]

\* appointment_checker.py:199-201, 209-211, 224-226, 238-240, 275-277: a stage
\* fails; the exception is logged and re-raised out of _navigate_to_service
StageFails_GoesOn(c, st, kind, text) ==
    [c EXCEPT !.trace = Append(@, st), !.aborted = st,
              !.pc = IF st = "wait" THEN "detect" ELSE "navigate"]
StageFails(c, st, kind, text) ==
    [c EXCEPT !.pc = "handler", !.exc = kind, !.msg = text,
              !.trace = Append(@, st), !.aborted = st, !.driver = LeaveWith(@)]

\* a stage is over: the next statement of _navigate_to_service, or back in
\* check_appointments after the last one (appointment_checker.py:129-135)
StagePasses(c, st) ==
    [c EXCEPT !.trace = Append(@, st),
              !.pc = IF st = "wait" THEN "detect" ELSE "navigate"]

\* appointment_checker.py:114-119: the call begins, the driver starts
check_appointments_call ==
    /\ ca.pc = "none"
    /\ \/ ca' = [ca EXCEPT !.pc = "launch", !.driver = "started"]
       \/ Raise("other", "driver")
    /\ UNCHANGED <<arg, ret>>
    /\ UNCHANGED serviceVars

\* appointment_checker.py:120-123: browser = await p.chromium.launch(...)
launch ==
    /\ ca.pc = "launch"
    /\ \/ ca' = [ca EXCEPT !.pc = "new_page", !.browser = "open"]
       \/ \E e \in Exceptions : \E text \in ExceptionTexts("launch") : Raise(e, text)
    /\ UNCHANGED <<arg, ret>>
    /\ UNCHANGED serviceVars

\* appointment_checker.py:125: page = await browser.new_page()
new_page ==
    /\ ca.pc = "new_page"
    /\ \/ ca' = [ca EXCEPT !.pc = "navigate", !.page = TRUE]
       \/ \E e \in Exceptions : \E text \in ExceptionTexts("new_page") : Raise(e, text)
    /\ UNCHANGED <<arg, ret>>
    /\ UNCHANGED serviceVars

\* appointment_checker.py:187, 193-211, 217-226, 232-240: the next stage of the
\* booking form that is a plain sequence of awaits
_navigate_to_service ==
    /\ ca.pc = "navigate"
    /\ NextStage(ca) \in PlainStages
    /\ LET st == NextStage(ca)
       IN \/ ca' = StagePasses(ca, st)
          \/ \E e \in Exceptions : \E text \in ExceptionTexts(st) :
                ca' = StageFails(ca, st, e, text)
    /\ UNCHANGED <<arg, ret>>
    /\ UNCHANGED serviceVars

\* appointment_checker.py:244-249
cookie_buttons == <<"Akzeptieren", "Alle akzeptieren", "Zustimmen", "OK">>
\* appointment_checker.py:281-285
popup_buttons == <<"OK", "Fortfahren", "Bestaetigen">>

\* appointment_checker.py:251-259 and 287-297: the candidates tried, in order,
\* given the set of those whose try body runs to its return; a candidate that
\* raises, or a dialog button that is not on the page, goes on to the next
RECURSIVE CandidateLoop_NoReturn(_, _, _, _)
CandidateLoop_NoReturn(cands, works, i, tried) ==
    IF i > Len(cands)
    THEN [tried |-> tried,
          hit |-> IF works = {} THEN 0
                  ELSE CHOOSE w \in works : \A v \in works : w <= v]
    ELSE CandidateLoop_NoReturn(cands, works, i + 1, Append(tried, cands[i]))
RECURSIVE CandidateLoop(_, _, _, _)
CandidateLoop(cands, works, i, tried) ==
    IF i > Len(cands) THEN [tried |-> tried, hit |-> 0]
    ELSE IF i \in works
         THEN [tried |-> Append(tried, cands[i]), hit |-> i]
         ELSE CandidateLoop(cands, works, i + 1, Append(tried, cands[i]))

\* appointment_checker.py:191, 242-261: the cookie banner; never raises
_handle_cookie_consent ==
    /\ ca.pc = "navigate"
    /\ NextStage(ca) = "consent"
    /\ \E works \in SUBSET (1..Len(cookie_buttons)) :
          ca' = [StagePasses(ca, "consent") EXCEPT
                    !.consent = CandidateLoop(cookie_buttons, works, 1, <<>>)]
    /\ UNCHANGED <<arg, ret>>
    /\ UNCHANGED serviceVars

\* appointment_checker.py:215, 263-277: fill(""), type(str(quantity)),
\* press("Tab"). What the control holds afterwards is the page's doing (its
\* scripts and its min/max); the value is not read back
_set_quantity ==
    /\ ca.pc = "navigate"
    /\ NextStage(ca) = "quantity"
    /\ \/ \E held \in {"configured", "other"} :
             ca' = [StagePasses(ca, "quantity") EXCEPT !.spin = held]
       \/ \E e \in Exceptions : \E text \in ExceptionTexts("quantity") :
             ca' = StageFails(ca, "quantity", e, text)
    /\ UNCHANGED <<arg, ret>>
    /\ UNCHANGED serviceVars

\* appointment_checker.py:230, 279-299: the confirmation dialog; never raises
_handle_popup ==
    /\ ca.pc = "navigate"
    /\ NextStage(ca) = "popup"
    /\ \E works \in SUBSET (1..Len(popup_buttons)) :
          ca' = [StagePasses(ca, "popup") EXCEPT
                    !.popup = CandidateLoop(popup_buttons, works, 1, <<>>)]
    /\ UNCHANGED <<arg, ret>>
    /\ UNCHANGED serviceVars

\* appointment_checker.py:132: await page.wait_for_load_state("networkidle",
\* timeout=15000) once _navigate_to_service has returned
wait_for_load_state ==
    /\ ca.pc = "navigate"
    /\ NextStage(ca) = "wait"
    /\ \/ ca' = StagePasses(ca, "wait")
       \/ \E e \in Exceptions : \E text \in ExceptionTexts("wait") :
             ca' = StageFails(ca, "wait", e, text)
    /\ UNCHANGED <<arg, ret>>
    /\ UNCHANGED serviceVars

\* appointment_checker.py:135: detection on the terminal page; page.content()
\* (319) may raise
detect ==
    /\ ca.pc = "detect"
    /\ \/ \E pg \in CheckerPages :
             ca' = [ca EXCEPT !.pc = "screenshot",
                               !.detected = _detect_and_extract_appointments(pg, now)]
       \/ \E e \in Exceptions : \E text \in ExceptionTexts("content") : Raise(e, text)
    /\ UNCHANGED <<arg, ret>>
    /\ UNCHANGED serviceVars

\* appointment_checker.py:530-536: does a failed page.screenshot leave
\* _save_screenshot as an exception? It is caught and "" is returned.
save_screenshot_raises_Escalates(shot) == shot = "failed"
save_screenshot_raises(shot) == FALSE

\* appointment_checker.py:138-143: the screenshot is taken inside the with
\* block, then `return result` leaves the block
_save_screenshot ==
    /\ ca.pc = "screenshot"
    /\ \E shot \in {"ok", "failed"} :
          IF save_screenshot_raises(shot)
          THEN ca' = [ca EXCEPT !.pc = "handler", !.exc = "other", !.msg = "closed",
                                !.shot = shot, !.shotOpen = (ca.driver = "started"),
                                !.driver = LeaveWith(@)]
          ELSE ca' = [ca EXCEPT !.pc = "finally", !.shot = shot,
                                !.shotOpen = (ca.driver = "started"),
                                !.driver = LeaveWith(@),
                                !.result = ca.detected]
    /\ UNCHANGED <<arg, ret>>
    /\ UNCHANGED serviceVars

\* appointment_checker.py:145-169: the except clauses, entered after the with
\* block was left. Both evaluate `... if page else None`: with the local `page`
\* never assigned this raises UnboundLocalError out of the clause; otherwise
\* the error screenshot is tried (538-543, never raises) and the error result
\* is built
handler ==
    /\ ca.pc = "handler"
    /\ IF ~ca.page
       THEN ca' = [ca EXCEPT !.pc = "finally", !.raised = TRUE]
       ELSE \E shot \in {"ok", "failed"} :
               ca' = [ca EXCEPT !.pc = "finally", !.shot = shot,
                        !.shotOpen = (ca.driver = "started"),
                        !.result = [status |-> "error", available |-> FALSE,
                                    appointments |-> <<>>,
                                    error_message |-> ErrorMessage(ca.exc, ca.msg),
                                    checked_at |-> now]]
    /\ UNCHANGED <<arg, ret>>
    /\ UNCHANGED serviceVars

\* appointment_checker.py:171-174: if browser: await browser.close()
FinallyBrowser_OnlyOnReturn(b, raised) == IF b = "open" /\ ~raised THEN "closed" ELSE b
FinallyBrowser(b, raised) == IF b = "open" THEN "closed" ELSE b

\* appointment_checker.py:171-174, then the call returns or raises
finally ==
    /\ ca.pc = "finally"
    /\ ca' = [ca EXCEPT !.pc = "done",
                        !.browser = FinallyBrowser(ca.browser, ca.raised)]
    /\ UNCHANGED <<arg, ret>>
    /\ UNCHANGED serviceVars

\* check_service.py:81-114: the returned result is persisted as a Check with
\* its Appointment rows
persist_result ==
    /\ ca.pc = "done"
    /\ ~ca.raised
    /\ Len(checks) < MaxChecks
    /\ \E s \in Subs :
          /\ checks' = Append(checks, CheckRow(s, ca.result))
          /\ last_checked_at' = [last_checked_at EXCEPT
                                    ![s] = NewLastChecked(@, ca.result.checked_at)]
    /\ total_checks' = StatisticsUpdate(total_checks, total_checks)
    /\ ca' = [ca EXCEPT !.pc = "persisted"]
    /\ UNCHANGED <<arg, ret>>
    /\ UNCHANGED <<now, active, interval_hours, probes, schedPc, dueList, idx,
                   lastProbeEnd, attempts, lastSchedStart, delivered,
                   consecutive_errors, subscriptions, scheduler>>

NextChecker ==
    \/ Advance
    \/ check_appointments_call
    \/ launch
    \/ new_page
    \/ _navigate_to_service
    \/ _handle_cookie_consent
    \/ _set_quantity
    \/ _handle_popup
    \/ wait_for_load_state
    \/ detect
    \/ _save_screenshot
    \/ handler
    \/ finally
    \/ persist_result

SpecChecker == Init /\ [][NextChecker]_vars

\* ------------------------------------------------------------- properties
\* a call of run_subscription_check by caller o that got past the load returns
ProbeReturns(o) == probes[o].pc # "none" /\ probes'[o].pc = "none"

\* C1: get_subscriptions_due_for_check returns a subscription exactly when it
\* is active and either was never checked or was last checked at least
\* interval_hours ago; a gap equal to the interval is due, a gap one clock unit
\* shorter is not.
C1_DueIff ==
    schedPc = "queried" =>
        /\ \A s \in Subs :
              s \in Range(dueList) <=>
                  /\ active[s]
                  /\ \/ last_checked_at[s] = None
                     \/ now - last_checked_at[s] >= interval_hours[s] * HourUnits
        /\ Cardinality(Range(dueList)) = Len(dueList)

\* the query has answered: one subscription is due at a gap exactly equal to its
\* interval, another active one is left out at a gap one unit shorter
C1_Witness ==
    /\ schedPc = "queried"
    /\ \E s, u \in Subs :
          /\ s \in Range(dueList)
          /\ last_checked_at[s] # None
          /\ now - last_checked_at[s] = interval_hours[s] * HourUnits
          /\ u \notin Range(dueList)
          /\ active[u]
          /\ last_checked_at[u] # None
          /\ now - last_checked_at[u] = interval_hours[u] * HourUnits - 1

\* C2: last_checked_at of a subscription never decreases from one committed
\* probe to the next, also when a manual and a scheduled probe of the same
\* subscription overlap.
C2_LastCheckedMonotone ==
    [][\A s \in Subs :
          last_checked_at[s] # None => last_checked_at'[s] >= last_checked_at[s]]_vars

\* C3: when a probe started for an active subscription returns, whatever its
\* outcome (an exception in the probe or in persistence included),
\* last_checked_at has been advanced to a time not before the probe's start.
C3_AdvancedAfterEveryProbe ==
    [][\A o \in Origins :
          ProbeReturns(o) =>
              /\ last_checked_at'[probes[o].sub] # None
              /\ last_checked_at'[probes[o].sub] >= probes[o].started]_vars

\* C4: two consecutive scheduler-initiated probes of one subscription start at
\* least interval_hours apart, also when the earlier one failed.
C4_ScheduledProbesSpaced ==
    [][\A s \in Subs :
          (lastSchedStart'[s] # lastSchedStart[s] /\ lastSchedStart[s] # None) =>
              lastSchedStart'[s] - lastSchedStart[s] >= interval_hours[s] * HourUnits]_vars

C6_FaultLeavesErrorRow ==
    [][\A o \in Origins :
          ProbeReturns(o) =>
              /\ Len(checks') = Len(checks) + 1
              /\ checks'[Len(checks')].subscription_id = probes[o].sub
              /\ (probes[o].pc = "checking" \/ probes[o].result.status = "error")
                    => checks'[Len(checks')].status = "error"]_vars

\* C7: within one tick the calls run one after the other: a later iteration of
\* the loop starts only when the previous call has returned and at least
\* INTER_PROBE_DELAY after its return, also when that call raised.
C7_SequentialWithDelay ==
    [][(idx' # idx /\ idx' > 1) =>
          /\ probes["sched"].pc = "none"
          /\ lastProbeEnd # None
          /\ now >= lastProbeEnd + INTER_PROBE_DELAY]_vars

\* the second probe of a tick is in flight after the first one raised
C7_Witness ==
    /\ schedPc = "awaiting"
    /\ idx = 2
    /\ Len(checks) = 1
    /\ checks[1].subscription_id = dueList[1]
    /\ checks[1].error_message = "exception"
    /\ probes["sched"].sub = dueList[2]
    /\ probes["sched"].started = lastProbeEnd + INTER_PROBE_DELAY

\* C8: a manual probe runs at once whether or not the subscription is due,
\* through run_subscription_check, and when it returns last_checked_at has been
\* advanced to a time not before its start.
C8_ManualProbeAdvances ==
    [][ProbeReturns("manual") =>
          LET s == probes["manual"].sub
          IN /\ last_checked_at'[s] # None
             /\ last_checked_at'[s] >= probes["manual"].started]_vars

\* C9: no subscriber is sent the same (date, time) slot in two notifications.
C9_NeverNotifiedTwice ==
    \A i, j \in 1..Len(delivered) :
        (i < j /\ delivered[i].sub = delivered[j].sub) =>
            Range(delivered[i].slots) \cap Range(delivered[j].slots) = {}

\* C10: handing the same outcome to the notification path a second time
\* forwards no slot: its slots are all in the notified set by then.
C10_SecondForwardEmpty ==
    \A i, j \in 1..Len(delivered) :
        (i < j /\ delivered[i].check_id = delivered[j].check_id) =>
            delivered[j].slots = <<>>

Pad2(str) == IF Len(str) = 1 THEN <<"0">> \o str ELSE str

\* C14: _parse_german_date returns YYYY-MM-DD, day and month padded to two
\* digits, for a header text made of an optional weekday prefix and D.M.YYYY or
\* DD.MM.YYYY, and the section's slot carries that date; for a text without the
\* pattern it returns None and the section emits no slot.
C14_GermanDateParsed ==
    ret.fn = "_parse_german_date" =>
        IF arg.kind = "date"
        THEN LET iso == arg.year \o <<"-">> \o Pad2(arg.month) \o <<"-">> \o Pad2(arg.day)
             IN /\ ret.value = iso
                /\ ret.slots = << <<iso, GoodControl>> >>
        ELSE /\ ret.value = NoneStr
             /\ ret.slots = <<>>

\* "Di, 5.3.2026" has been parsed to "2026-03-05"
C14_Witness ==
    /\ ret.fn = "_parse_german_date"
    /\ arg.kind = "date"
    /\ Render(arg) = <<"D", "i", ",", " ", "5", ".", "3", ".", "2", "0", "2", "6">>
    /\ ret.value = <<"2", "0", "2", "6", "-", "0", "3", "-", "0", "5">>
    /\ Len(ret.slots) = 1

\* C15: for a control text with an H:MM or HH:MM token the slot's time is the
\* token with the hour padded to two digits; a control without a token is
\* skipped.
C15_TimeNormalized ==
    ret.fn = "_parse_datetime_from_text" =>
        IF arg.kind = "time"
        THEN LET hhmm == Pad2(arg.hour) \o <<":">> \o arg.minute
             IN /\ ret.value = hhmm
                /\ ret.slots = << <<_parse_german_date(GoodHeader), hhmm>> >>
        ELSE /\ ret.value = NoneStr
             /\ ret.slots = <<>>

\* the content holds one of the phrases, in whatever case
HasNegativePhrase(html) ==
    \E i \in 1..(Len(html) - 1) :
        \/ html[i] \in {"k", "K"} /\ html[i + 1] \in {"t", "T"}
        \/ html[i] \in {"k", "K"} /\ html[i + 1] \in {"f", "F"}

\* C12: if the page content contains a 'no appointments' phrase in whatever
\* case, _detect_and_extract_appointments returns no_appointments with no slot,
\* whatever date sections and controls the page has.
C12_NegativePhraseWins ==
    (ret.fn = "_detect_and_extract_appointments" /\ HasNegativePhrase(arg.html)) =>
        /\ ret.value.status = "no_appointments"
        /\ ret.value.available = FALSE
        /\ ret.value.appointments = <<>>

\* a page with a phrase in another case than configured and with a section
\* whose control parses has been detected as no_appointments
C12_Witness ==
    /\ ret.fn = "_detect_and_extract_appointments"
    /\ arg.html = <<"k", "T">>
    /\ Len(arg.headers) = MaxHeaders
    /\ arg.raiseAt = 0
    /\ _extract_appointment_slots(arg) # <<>>
    /\ ret.value.status = "no_appointments"

\* C13: with no phrase matched and no date section the result is unknown, and
\* no_appointments is returned only when a phrase matched.
C13_NoHeadersIsUnknown ==
    ret.fn = "_detect_and_extract_appointments" =>
        /\ (~HasNegativePhrase(arg.html) /\ Len(arg.headers) = 0)
              => ret.value.status = "unknown"
        /\ ret.value.status = "no_appointments" => HasNegativePhrase(arg.html)

\* a page without phrase and without date section has been detected as unknown
C13_Witness ==
    /\ ret.fn = "_detect_and_extract_appointments"
    /\ arg.html # <<>>
    /\ ~HasNegativePhrase(arg.html)
    /\ Len(arg.headers) = 0
    /\ ret.value.status = "unknown"

\* C17: no (date, time) pair appears twice in the slot list of one result.
C17_NoDuplicateSlots ==
    ret.fn = "_detect_and_extract_appointments" =>
        \A i, j \in 1..Len(ret.value.appointments) :
            i < j => ret.value.appointments[i] # ret.value.appointments[j]

\* C16: in every result check_appointments returns and in every Check row
\* persisted from one, the slot list is non-empty exactly when the status is
\* appointments_found.
C16_SlotsIffFound ==
    /\ (ca.pc \in {"done", "persisted"} /\ ~ca.raised) =>
          (ca.result.appointments # <<>> <=> ca.result.status = "appointments_found")
    /\ \A c \in 1..Len(checks) :
          /\ checks[c].appointments # <<>> <=> checks[c].status = "appointments_found"
          /\ checks[c].appointment_count = Len(checks[c].appointments)

\* a returned result with a slot has been persisted as appointments_found with
\* its Appointment row
C16_Witness ==
    /\ ca.pc = "persisted"
    /\ ca.result.status = "appointments_found"
    /\ Len(checks) = 1
    /\ checks[1].status = "appointments_found"
    /\ checks[1].appointment_count = 1
    /\ Len(checks[1].appointments) = 1

\* C18: when check_appointments returns or raises, no browser launched by the
\* call is still open.
C18_BrowserClosedOnExit ==
    ca.pc = "done" => ca.browser # "open"

\* the call has raised after the launch (new_page failed) and the browser is
\* closed
C18_Witness ==
    /\ ca.pc = "done"
    /\ ca.raised
    /\ ca.exc = "timeout"
    /\ ca.browser = "closed"

\* C19: check_appointments never raises; every failure during the attempt is
\* returned as a result with status error, not available, no slot and a
\* failure reason.
C19_NeverRaises ==
    ca.pc = "done" =>
        /\ ~ca.raised
        /\ ca.exc # "none" =>
              /\ ca.result.status = "error"
              /\ ca.result.available = FALSE
              /\ ca.result.appointments = <<>>
              /\ ca.result.error_message # ""

\* C20: whether the screenshot could be saved or not, a call whose detection
\* completed returns the detected status, availability and slots, a call that
\* failed with a page returns the error result, and no exception escapes.
C20_ScreenshotNeverChangesOutcome ==
    (ca.pc = "done" /\ ca.shot # "none") =>
        /\ ~ca.raised
        /\ IF ca.detected # NoResult
           THEN /\ ca.result.status = ca.detected.status
                /\ ca.result.available = ca.detected.available
                /\ ca.result.appointments = ca.detected.appointments
           ELSE ca.result.status = "error"

\* the screenshot failed and the call has returned the slots it found
C20_Witness ==
    /\ ca.pc = "done"
    /\ ca.shot = "failed"
    /\ ~ca.raised
    /\ ca.result.status = "appointments_found"
    /\ ca.result.appointments # <<>>

\* C21: every result check_appointments returns, error and timeout results
\* included, has its screenshot captured while the driver session of the call
\* is still open.
C21_ScreenshotWhileSessionOpen ==
    (ca.pc = "done" /\ ~ca.raised) => (ca.shot # "none" /\ ca.shotOpen)

\* the rows a step appends to the checks table
AddedRows == SubSeq(checks', Len(checks) + 1, Len(checks'))
\* the Check row of the exception path (check_service.py:134-141)
IsExceptionRow(row) == row.error_message = "exception"

\* C22: in every step the rows of one probe become visible together with the
\* write of last_checked_at or not at all: rows are only appended;
\* a row persisted from a result carries all its Appointment rows and
\* comes with last_checked_at set to its checked_at; and last_checked_at of a
\* subscription changes in no other step, so a failed unit of work leaves it
\* at its previous value.
C22_PersistenceAllOrNothing ==
    [][/\ Len(checks') >= Len(checks)
       /\ SubSeq(checks', 1, Len(checks)) = checks
       /\ \A i \in 1..Len(AddedRows) :
             ~IsExceptionRow(AddedRows[i]) =>
                 /\ last_checked_at'[AddedRows[i].subscription_id]
                        = AddedRows[i].checked_at
                 /\ Len(AddedRows[i].appointments) = AddedRows[i].appointment_count
       /\ \A s \in Subs :
             last_checked_at'[s] # last_checked_at[s] =>
                 \E i \in 1..Len(AddedRows) :
                     /\ AddedRows[i].subscription_id = s
                     /\ ~IsExceptionRow(AddedRows[i])]_vars

\* a unit of work failed after a probe that found slots, and the store shows
\* only the error row while last_checked_at is the one of an earlier check
C22_Witness ==
    /\ Len(checks) = 2
    /\ ~IsExceptionRow(checks[1])
    /\ IsExceptionRow(checks[2])
    /\ checks[2].subscription_id = checks[1].subscription_id
    /\ last_checked_at[checks[1].subscription_id] = checks[1].checked_at
    /\ checks[1].appointments # <<>>
    /\ checks[2].checked_at > checks[1].checked_at

\* check_service.py:58, 126, 144, 148: what run_subscription_check hands to its
\* caller in the step it returns: the row it saved, or None
NoCheck == [status |-> "none"]
ReturnedCheck == IF Len(checks') > Len(checks) THEN checks'[Len(checks')] ELSE NoCheck

\* handlers.py:358-379: the message _handle_manual_check edits into the chat
\* for the value run_subscription_check returned, and the failure reason the
\* message carries
ManualCheckReply(check) ==
    IF check = NoCheck
    THEN [text |-> "Failed to run check.", reason |-> ""]
    ELSE IF check.available /\ check.appointments # <<>>
         THEN [text |-> "Found appointment(s)!", reason |-> ""]
         ELSE [text |-> "No appointments available at the moment.", reason |-> ""]

\* C23: when a manual probe returns the Check persisted from a result of status
\* error or unknown, the reply to the subscriber carries the failure reason of
\* that Check and is not the text sent for a no_appointments Check.
C23_ManualFailureReported ==
    [][(ProbeReturns("manual") /\ ReturnedCheck # NoCheck
            /\ ~IsExceptionRow(ReturnedCheck)
            /\ ReturnedCheck.status \in {"error", "unknown"}) =>
          /\ ManualCheckReply(ReturnedCheck).reason = ReturnedCheck.error_message
          /\ ManualCheckReply(ReturnedCheck).text
                 # "No appointments available at the moment."]_vars

\* C24: when the extraction raised while reading a date section, the result is
\* not appointments_found and carries no slot.
C24_PartialExtractionNotFound ==
    (ret.fn = "_detect_and_extract_appointments" /\ arg.raiseAt # 0) =>
        /\ ret.value.status # "appointments_found"
        /\ ret.value.appointments = <<>>

\* the error rows of subscription s at the end of the checks table, counted
\* back to its last row of another status
RECURSIVE TrailingErrors(_, _)
TrailingErrors(rows, s) ==
    IF rows = <<>> THEN 0
    ELSE LET last == rows[Len(rows)]
             rest == SubSeq(rows, 1, Len(rows) - 1)
         IN IF last.subscription_id # s THEN TrailingErrors(rest, s)
            ELSE IF last.status = "error" THEN 1 + TrailingErrors(rest, s)
            ELSE 0

\* C25: consecutive_errors of a subscription equals the number of its failed
\* probes since its last successful one.
C25_ConsecutiveErrorsCounted ==
    \A s \in Subs : consecutive_errors[s] = TrailingErrors(checks, s)

\* C26: a result carries a failure reason exactly when its status is error.
C26_ReasonIffError ==
    (ca.pc \in {"done", "persisted"} /\ ~ca.raised) =>
        (ca.result.error_message # "" <=> ca.result.status = "error")

\* C27: the stages of one call run in the order goto, consent, category,
\* service, quantity, first continue, interstitial, second continue, terminal
\* wait, each at most once; after a failed stage no further stage runs and
\* detection is never invoked; detection runs only after all of them.
C27_StagesInOrderOnce ==
    LET order == <<"goto", "consent", "category", "service", "quantity",
                   "weiter1", "popup", "weiter2", "wait">>
    IN /\ Len(ca.trace) <= Len(order)
       /\ \A i \in 1..Len(ca.trace) : i <= Len(order) => ca.trace[i] = order[i]
       /\ ca.aborted # "none" =>
             /\ ca.trace # <<>>
             /\ ca.trace[Len(ca.trace)] = ca.aborted
             /\ ca.detected = NoResult
             /\ ca.pc \in {"handler", "finally", "done", "persisted"}
       /\ ca.detected # NoResult => (ca.trace = order /\ ca.aborted = "none")

\* the service could not be selected: the call ended after four stages, without
\* detection
C27_Witness ==
    /\ ca.pc = "done"
    /\ ca.aborted = "service"
    /\ ca.trace = <<"goto", "consent", "category", "service">>
    /\ ca.detected = NoResult
    /\ ca.result.status = "error"

\* the candidates a best-effort step has tried when its outcome is `step`
TriedUpToHit(cands, step, ran) ==
    step.tried = SubSeq(cands, 1, IF step.hit # 0 THEN step.hit
                                  ELSE IF ran THEN Len(cands) ELSE 0)

\* C28: the consent step and the dialog step try their candidates in list
\* order and stop with the first one that succeeds; neither step aborts the
\* call, and with no successful candidate the next stage still follows.
C28_FirstCandidateWins ==
    /\ TriedUpToHit(cookie_buttons, ca.consent, Len(ca.trace) >= 2)
    /\ TriedUpToHit(popup_buttons, ca.popup, Len(ca.trace) >= 7)
    /\ ca.aborted \notin {"consent", "popup"}
    /\ (Len(ca.trace) = 2 \/ Len(ca.trace) = 7) => ca.pc = "navigate"

\* the second consent button was the first to succeed, no dialog button was on
\* the page, and the second continue ran
C28_Witness ==
    /\ ca.consent = [tried |-> <<"Akzeptieren", "Alle akzeptieren">>, hit |-> 2]
    /\ ca.popup = [tried |-> popup_buttons, hit |-> 0]
    /\ Len(ca.trace) >= 8
    /\ ca.trace[8] = "weiter2"
    /\ ca.aborted = "none"

\* C29: the first continue is activated only when the quantity control holds
\* the configured quantity.
C29_QuantityHeldBeforeSubmit ==
    (Len(ca.trace) >= 6 /\ ca.trace[6] = "weiter1") => ca.spin = "configured"

\* C30: a call aborted at a booking stage returns an error result whose
\* error_message is one that only a failure of that stage produces.
C30_ReasonNamesStage ==
    (ca.pc \in {"done", "persisted"} /\ ca.aborted # "none") =>
        /\ ~ca.raised
        /\ ca.result.status = "error"
        /\ ca.result.error_message \in {ca.aborted, ErrorMessage("timeout", ca.aborted)}

\* C34: a call of run_subscription_check adds at most one row to the checks
\* table.
C34_OneCheckPerCall ==
    [][\A o \in Origins : ProbeReturns(o) => Len(checks') <= Len(checks) + 1]_vars

\* the rows persisted by the success path of run_subscription_check
CommittedProbes == {i \in 1..Len(checks) : ~IsExceptionRow(checks[i])}

\* C35: total_checks of the service equals the number of probes committed for
\* it through the success path.
C35_TotalChecksCountsProbes ==
    total_checks = Cardinality(CommittedProbes)

\* the scheduler loop calls run_subscription_check for subscription s
\* (scheduler.py:85-89)
IterationStarts(s) ==
    /\ \/ schedPc = "idle" /\ schedPc' # "idle"
       \/ schedPc = "sleeping" /\ idx' = idx + 1
    /\ dueList'[idx'] = s

\* C33: when the scheduler's turn comes to a subscription that is inactive by
\* then, no probe is started for it, no Check row is written and its
\* last_checked_at is left alone; the loop goes straight on to its sleep.
C33_InactiveNeverProbed ==
    [][\A s \in Subs :
          (IterationStarts(s) /\ ~active[s]) =>
              /\ probes' = probes
              /\ checks' = checks
              /\ last_checked_at' = last_checked_at
              /\ lastSchedStart' = lastSchedStart
              /\ schedPc' = "sleeping"]_vars

\* the second subscription of the due list was cancelled before its turn: its
\* turn is over and it was never probed
C33_Witness ==
    /\ Len(dueList) = 2
    /\ idx = 2
    /\ schedPc = "sleeping"
    /\ ~active[dueList[2]]
    /\ lastSchedStart[dueList[2]] = None
    /\ last_checked_at[dueList[2]] = None
    /\ attempts[dueList[2]] = 1
    /\ \A i \in 1..Len(checks) : checks[i].subscription_id # dueList[2]

\* the tick waits in its sleep for something the bounds of the model withhold:
\* a clock value past MaxTime, or room in the checks table
HorizonReached ==
    /\ schedPc = "sleeping"
    /\ \/ now = MaxTime /\ now < SleepEnd(lastProbeEnd)
       \/ idx < Len(dueList) /\ ~Room

\* C31: the probe the scheduler awaits eventually returns or raises, so the
\* loop reaches its sleep; and a tick that has started eventually ends, as far
\* as the clock and the checks table of the model reach.
C31_ProbesAndTicksTerminate ==
    /\ (schedPc = "awaiting") ~> (schedPc = "sleeping")
    /\ (schedPc # "idle") ~> (schedPc = "idle" \/ HorizonReached)

\* a tick over two due subscriptions has probed both and has ended
C31_Witness ==
    /\ schedPc = "idle"
    /\ Len(dueList) = 2
    /\ idx = 2
    /\ Len(checks) = 2
    /\ \A s \in Subs : attempts[s] = 1

\* C32: send_appointment_notification returns True exactly when the message
\* was delivered to the subscriber.
C32_TrueIffDelivered ==
    ret.fn = "send_appointment_notification" => (ret.value <=> ret.sent)

\* a call of fn is made in this step
Calls(fn) == ret'.n = ret.n + 1 /\ ret'.fn = fn
\* the rows of the pair (u, sv)
PairRows(u, sv) ==
    {s \in Subs : /\ subscriptions[s] # NoRow
                  /\ subscriptions[s].user_id = u
                  /\ subscriptions[s].service_id = sv}
\* the columns of every row but e, and the Check history, stay as they are
OtherRowsKept(e) ==
    /\ \A s \in Subs \ {e} :
          /\ subscriptions'[s] = subscriptions[s]
          /\ active'[s] = active[s]
          /\ interval_hours'[s] = interval_hours[s]
    /\ last_checked_at' = last_checked_at
    /\ checks' = checks

CheckJobs(sv) == {i \in 1..Len(sv.jobs) : sv.jobs[i] = "check_subscriptions"}

\* C39: start on a running service and stop on one that is not running return
\* without an effect; every other start leaves running true, every other stop
\* leaves it false, no other step writes running, and the job store never
\* holds more than one 'check_subscriptions' job.
C39_StartStopIdempotent ==
    [][/\ Cardinality(CheckJobs(scheduler')) <= 1
       /\ (Calls("start") /\ scheduler.running) =>
             /\ scheduler' = scheduler
             /\ ret'.value = "already running"
       /\ (Calls("start") /\ ~scheduler.running) =>
             /\ scheduler'.running
             /\ ret'.value = "started"
             /\ Cardinality(CheckJobs(scheduler')) = 1
       /\ (Calls("stop") /\ ~scheduler.running) =>
             /\ scheduler' = scheduler
             /\ <<schedPc, probes>>' = <<schedPc, probes>>
             /\ ret'.value = "not running"
       /\ (Calls("stop") /\ scheduler.running) =>
             /\ ~scheduler'.running
             /\ ret'.value = "stopped"
       /\ ~(Calls("start") \/ Calls("stop")) => scheduler'.running = scheduler.running
      ]_vars

\* the service was started, stopped and started again: it is running, its job
\* store holds one job and a tick of that job is in progress
C39_Witness ==
    /\ ret.fn = "start"
    /\ ret.value = "started"
    /\ ret.n = 3
    /\ scheduler.running
    /\ Cardinality(CheckJobs(scheduler)) = 1
    /\ schedPc # "idle"
====
